---- MODULE Spec2Model ----
(***************************************************************************)
(* Model of the operations-support assistant core: intent classification   *)
(* (chains/intent_chain.py), metadata filters (retrieval/filters.py), the  *)
(* retriever adapter with its cached index (retrieval/retrievers.py), the  *)
(* router (retrieval/routing.py) and answer assembly (chains/rag_chain.py).*)
(*                                                                         *)
(* Python strings on which the code performs character-level operations    *)
(* (strip, lower, membership in the allowed set) are sequences of one-     *)
(* character strings.  Python None is the value None.                      *)
(***************************************************************************)
EXTENDS Integers, Sequences, FiniteSets, TLC

\* ------------------------------------------------------------------------
\* Bounds of the model
\* ------------------------------------------------------------------------
MaxPad == 1

MaxHits == 2

MaxLoads == 3

MaxBatch == 2

MaxPriority == 5

MaxTopK == 6

MaxTurns == 2

MaxContextBatch == 7

MaxHistory == 5

\* the request threads; Main is the caller of the single-threaded front ends
Threads == {"t1", "t2"}

Main == "t1"

\* ------------------------------------------------------------------------
\* Python values and string operations
\* ------------------------------------------------------------------------
None == "<None>"

\* truthiness of an Optional[str] argument (None and "" are falsy)
Truthy(v) == v # None /\ v # ""

\* None and truthiness for values held as character sequences
NoneText == <<"<None>">>

TruthyText(s) == s # NoneText /\ s # <<>>

Whitespace == {" ", "\n", "\t"}

UpperLetters == <<"A", "B", "C", "D", "E", "F", "G", "H", "I", "J", "K", "L", "M",
                  "N", "O", "P", "Q", "R", "S", "T", "U", "V", "W", "X", "Y", "Z">>

LowerLetters == <<"a", "b", "c", "d", "e", "f", "g", "h", "i", "j", "k", "l", "m",
                  "n", "o", "p", "q", "r", "s", "t", "u", "v", "w", "x", "y", "z">>

LowerChar(c) ==
    IF \E i \in 1..26 : UpperLetters[i] = c
    THEN LowerLetters[CHOOSE i \in 1..26 : UpperLetters[i] = c]
    ELSE c

UpperChar(c) ==
    IF \E i \in 1..26 : LowerLetters[i] = c
    THEN UpperLetters[CHOOSE i \in 1..26 : LowerLetters[i] = c]
    ELSE c

\* str.lower()
str_lower(s) == [i \in 1..Len(s) |-> LowerChar(s[i])]

\* str.strip(): drop leading and trailing whitespace, keep inner whitespace
str_strip(s) ==
    LET keep == {i \in 1..Len(s) : s[i] \notin Whitespace}
    IN  IF keep = {} THEN <<>>
        ELSE LET lo == CHOOSE i \in keep : \A j \in keep : i <= j
                 hi == CHOOSE i \in keep : \A j \in keep : j <= i
             IN  SubSeq(s, lo, hi)

\* ------------------------------------------------------------------------
\* Intent labels (chains/intent_chain.py)
\* ------------------------------------------------------------------------
runbook_lookup == <<"r", "u", "n", "b", "o", "o", "k", "_", "l", "o", "o", "k", "u", "p">>

incident_analysis == <<"i", "n", "c", "i", "d", "e", "n", "t", "_", "a", "n", "a", "l", "y", "s", "i", "s">>

log_analysis == <<"l", "o", "g", "_", "a", "n", "a", "l", "y", "s", "i", "s">>

alert_investigation == <<"a", "l", "e", "r", "t", "_", "i", "n", "v", "e", "s", "t", "i", "g", "a", "t", "i", "o", "n">>

ticket_investigation == <<"t", "i", "c", "k", "e", "t", "_", "i", "n", "v", "e", "s", "t", "i", "g", "a", "t", "i", "o", "n">>

general_question == <<"g", "e", "n", "e", "r", "a", "l", "_", "q", "u", "e", "s", "t", "i", "o", "n">>

allowed == {runbook_lookup, incident_analysis, log_analysis,
            alert_investigation, ticket_investigation, general_question}

\* classify_intent applied to the text the classification chain returned
classify_intent_NoFallback(rawText) == str_lower(str_strip(rawText))

classify_intent_NoLower(rawText) ==
    LET intent == str_strip(rawText)
    IN  IF intent \notin allowed THEN runbook_lookup ELSE intent

classify_intent(rawText) ==
    LET intent == str_lower(str_strip(rawText))
    IN  IF intent \notin allowed THEN runbook_lookup ELSE intent

\* ------------------------------------------------------------------------
\* Outputs of the classification collaborator used as inputs
\* ------------------------------------------------------------------------
UpperAll(s) == [i \in 1..Len(s) |-> UpperChar(s[i])]

Capitalized(s) == [i \in 1..Len(s) |-> IF i = 1 THEN UpperChar(s[i]) ELSE s[i]]

TitleCased(s) ==
    [i \in 1..Len(s) |-> IF i = 1 \/ (i > 1 /\ s[i - 1] = "_") THEN UpperChar(s[i]) ELSE s[i]]

Casings(s) == {s, UpperAll(s), Capitalized(s), TitleCased(s)}

Pads == UNION {[1..n -> Whitespace] : n \in 0..MaxPad}

DriftTexts ==
    { <<>>,
      <<"I", "n", "t", "e", "n", "t", ":", " ">> \o log_analysis,
      log_analysis \o <<".">>,
      <<"l", "o", "g", " ", "a", "n", "a", "l", "y", "s", "i", "s">>,
      <<"l", "o", "g", "_", " ", "a", "n", "a", "l", "y", "s", "i", "s">>,
      <<"r", "u", "n", "b", "o", "o", "k">>,
      <<"u", "n", "k", "n", "o", "w", "n">>,
      runbook_lookup \o <<"\n">> \o log_analysis }

RawOutputs ==
    { pre \o body \o post :
        pre \in Pads, post \in Pads,
        body \in UNION {Casings(b) : b \in allowed \cup DriftTexts} }

RawSample ==
    allowed \cup { <<" ">> \o TitleCased(log_analysis) \o <<"\n">>,
                   <<"I", "n", "t", "e", "n", "t", ":", " ">> \o log_analysis }

\* ------------------------------------------------------------------------
\* Metadata filters (retrieval/filters.py)
\* ------------------------------------------------------------------------
NoPriority == <<>>

EmptyFilter == [key \in {} |-> None]

build_metadata_filter_UnknownKept(source_type, service, max_priority) ==
    (IF Truthy(source_type) THEN "source_type" :> source_type ELSE EmptyFilter)
    @@ (IF Truthy(service) THEN "service" :> service ELSE EmptyFilter)
    @@ (IF max_priority # NoPriority THEN "priority_order" :> [lte |-> max_priority[1]] ELSE EmptyFilter)

build_metadata_filter_PriorityTruthy(source_type, service, max_priority) ==
    (IF Truthy(source_type) THEN "source_type" :> source_type ELSE EmptyFilter)
    @@ (IF Truthy(service) /\ service # "unknown" THEN "service" :> service ELSE EmptyFilter)
    @@ (IF max_priority # NoPriority /\ max_priority[1] # 0
        THEN "priority_order" :> [lte |-> max_priority[1]] ELSE EmptyFilter)

build_metadata_filter(source_type, service, max_priority) ==
    (IF Truthy(source_type) THEN "source_type" :> source_type ELSE EmptyFilter)
    @@ (IF Truthy(service) /\ service # "unknown" THEN "service" :> service ELSE EmptyFilter)
    @@ (IF max_priority # NoPriority THEN "priority_order" :> [lte |-> max_priority[1]] ELSE EmptyFilter)

\* ------------------------------------------------------------------------
\* The indexed corpus and the vector-index collaborator
\* ------------------------------------------------------------------------
Corpus ==
    << [source_type |-> "runbook", service |-> "trading-db", priority_order |-> 1,
        source |-> <<"r", "u", "n", "b", "o", "o", "k", "s", "/", "d", "i", "s", "k", "_", "s", "p", "i", "k", "e", ".", "t", "x", "t">>],
       [source_type |-> "runbook", service |-> "unknown", priority_order |-> 1,
        source |-> <<"k", "b", "/", "d", "i", "s", "k", "_", "s", "p", "i", "k", "e", ".", "t", "x", "t">>],
       [source_type |-> "alert", service |-> "trading-db", priority_order |-> 2,
        source |-> <<"a", "l", "e", "r", "t", "s", "/", "m", "q", "_", "d", "e", "p", "t", "h", ".", "j", "s", "o", "n">>],
       [source_type |-> "incident", service |-> "trading-db", priority_order |-> 3,
        source |-> <<"N", "o", "n", "e">>],
       [source_type |-> "ticket", service |-> "trading-db", priority_order |-> 4,
        source |-> <<"t", "i", "c", "k", "e", "t", "s", "/", "N", "U", "L", "L">>],
       [source_type |-> "log", service |-> "payment-gateway", priority_order |-> 5],
       [source_type |-> "runbook", service |-> "trading-db", priority_order |-> 1,
        source |-> <<"r", "u", "n", "b", "o", "o", "k", "s", "/", "m", "q", "_", "d", "e", "p", "t", "h", ".", "t", "x", "t">>],
       [source_type |-> "runbook", service |-> "trading-db", priority_order |-> 1,
        source |-> <<"r", "u", "n", "b", "o", "o", "k", "s", "/", "d", "i", "s", "k", "_", "s", "p", "i", "k", "e", ".", "t", "x", "t">>] >>

CorpusIds == DOMAIN Corpus

Services == {None, "unknown", "trading-db"}

Matches(md, flt) ==
    \A key \in DOMAIN flt :
        IF key = "priority_order" THEN md[key] <= flt[key].lte ELSE md[key] = flt[key]

Min2(a, b) == IF a <= b THEN a ELSE b

DistinctSeqs(S, n) ==
    UNION { {s \in [1..m -> S] : \A i, j \in 1..m : i # j => s[i] # s[j]} : m \in 0..n }

\* what a similarity search on an index holding indexDocs can return:
\* at most k distinct documents, all satisfying the filter when one is given
RECURSIVE Ascending(_)
Ascending(S) ==
    IF S = {} THEN <<>>
    ELSE LET least == CHOOSE d \in S : \A e \in S : d <= e
         IN  <<least>> \o Ascending(S \ {least})

\* results of more than MaxHits documents, one order for each set of documents
LongResults(hit, k) ==
    { Ascending(S) : S \in {T \in SUBSET hit : Cardinality(T) > MaxHits /\ Cardinality(T) <= k} }

SearchResults(indexDocs, search_kwargs) ==
    LET hit == {d \in indexDocs :
                  "filter" \in DOMAIN search_kwargs => Matches(Corpus[d], search_kwargs["filter"])}
    IN  DistinctSeqs(hit, Min2(search_kwargs["k"], MaxHits)) \cup LongResults(hit, search_kwargs["k"])

\* ------------------------------------------------------------------------
\* Retriever adapter (retrieval/retrievers.py, ingestion/build_index.py)
\* ------------------------------------------------------------------------
RETRIEVER_TOP_K == 5

NoHandle == [id |-> 0, docs |-> {}]

\* FAISS.load_local on the persisted "vector_store" directory: the n-th load
load_vector_index_EmptyWhenMissing(built, n) ==
    IF built THEN [ok |-> TRUE, handle |-> [id |-> n, docs |-> CorpusIds]]
    ELSE [ok |-> TRUE, handle |-> [id |-> n, docs |-> {}]]

load_vector_index(built, n) ==
    IF built THEN [ok |-> TRUE, handle |-> [id |-> n, docs |-> CorpusIds]]
    ELSE [ok |-> FALSE, handle |-> NoHandle]

\* an Optional[int] top_k: <<>> is None, <<n>> is the integer n
NoTopK == <<>>

\* an Optional[Dict] metadata_filter: <<>> is None, <<flt>> is the dict flt
NoFilter == <<>>

\* top_k or RETRIEVER_TOP_K
top_k_or_default(top_k) ==
    IF top_k # NoTopK /\ top_k[1] # 0 THEN top_k[1] ELSE RETRIEVER_TOP_K

\* the minimum score of get_base_retriever, in hundredths
score_threshold == 75

\* the retriever get_base_retriever builds
get_base_retriever(top_k) ==
    LET k == top_k_or_default(top_k)
    IN  [search_type |-> "similarity_score_threshold",
         search_kwargs |-> ("score_threshold" :> score_threshold) @@ ("k" :> k)]

\* the retriever get_filtered_retriever builds
get_filtered_retriever(metadata_filter, top_k) ==
    LET k == top_k_or_default(top_k)
    IN  [search_type |-> "similarity",
         search_kwargs |-> ("k" :> k) @@
             (IF metadata_filter # NoFilter /\ DOMAIN metadata_filter[1] # {}
              THEN "filter" :> metadata_filter[1] ELSE EmptyFilter)]

\* ------------------------------------------------------------------------
\* Router (retrieval/routing.py)
\* ------------------------------------------------------------------------
RUNBOOK_TOP_K == 3

ALERT_TOP_K == 3

INCIDENT_TOP_K == 3

\* the filter and top_k of the search issued at a stage of route_query
StageSearch_AlertIntentFiltered(stage, service) ==
    CASE stage = "runbook"  -> [flt |-> build_metadata_filter("runbook", service, NoPriority), top_k |-> <<RUNBOOK_TOP_K>>]
      [] stage = "alert"    -> [flt |-> build_metadata_filter("alert", service, NoPriority), top_k |-> <<ALERT_TOP_K>>]
      [] stage = "incident" -> [flt |-> build_metadata_filter("incident", service, NoPriority), top_k |-> <<INCIDENT_TOP_K>>]
      [] stage = "incident_analysis" -> [flt |-> build_metadata_filter("incident", service, NoPriority), top_k |-> NoTopK]
      [] stage = "log_analysis" -> [flt |-> build_metadata_filter("log", service, NoPriority), top_k |-> NoTopK]
      [] OTHER -> [flt |-> build_metadata_filter("alert", service, NoPriority), top_k |-> NoTopK]

StageSearch_RunbookDefaultTopK(stage, service) ==
    CASE stage = "runbook"  -> [flt |-> build_metadata_filter("runbook", service, NoPriority), top_k |-> NoTopK]
      [] stage = "alert"    -> [flt |-> build_metadata_filter("alert", service, NoPriority), top_k |-> <<ALERT_TOP_K>>]
      [] stage = "incident" -> [flt |-> build_metadata_filter("incident", service, NoPriority), top_k |-> <<INCIDENT_TOP_K>>]
      [] stage = "incident_analysis" -> [flt |-> build_metadata_filter("incident", service, NoPriority), top_k |-> NoTopK]
      [] stage = "log_analysis" -> [flt |-> build_metadata_filter("log", service, NoPriority), top_k |-> NoTopK]
      [] OTHER -> [flt |-> build_metadata_filter(None, service, NoPriority), top_k |-> NoTopK]

StageSearch(stage, service) ==
    CASE stage = "runbook"  -> [flt |-> build_metadata_filter("runbook", service, NoPriority), top_k |-> <<RUNBOOK_TOP_K>>]
      [] stage = "alert"    -> [flt |-> build_metadata_filter("alert", service, NoPriority), top_k |-> <<ALERT_TOP_K>>]
      [] stage = "incident" -> [flt |-> build_metadata_filter("incident", service, NoPriority), top_k |-> <<INCIDENT_TOP_K>>]
      [] stage = "incident_analysis" -> [flt |-> build_metadata_filter("incident", service, NoPriority), top_k |-> NoTopK]
      [] stage = "log_analysis" -> [flt |-> build_metadata_filter("log", service, NoPriority), top_k |-> NoTopK]
      [] OTHER -> [flt |-> build_metadata_filter(None, service, NoPriority), top_k |-> NoTopK]

\* the branch route_query takes for an intent: the stage of its first search
route_query_SingleFallsBack(intent) ==
    IF intent = runbook_lookup THEN "runbook"
    ELSE IF intent = incident_analysis THEN "incident_analysis"
    ELSE IF intent = log_analysis THEN "alert"
    ELSE "broad"

route_query(intent) ==
    IF intent = runbook_lookup THEN "runbook"
    ELSE IF intent = incident_analysis THEN "incident_analysis"
    ELSE IF intent = log_analysis THEN "log_analysis"
    ELSE "broad"

\* what follows a search that returned found at a stage: the next stage of the
\* cascade, or "return" when found is the result of route_query
route_runbook_first_Merging(stage, found) ==
    IF stage = "runbook" THEN "alert"
    ELSE IF stage = "alert" /\ found = <<>> THEN "incident"
    ELSE "return"

route_runbook_first_AlertFallsThrough(stage, found) ==
    IF stage = "runbook" /\ found = <<>> THEN "alert"
    ELSE IF stage = "alert" THEN "incident"
    ELSE "return"

route_runbook_first_ContinuesToTickets(stage, found) ==
    IF stage = "runbook" /\ found = <<>> THEN "alert"
    ELSE IF stage = "alert" /\ found = <<>> THEN "incident"
    ELSE IF stage = "incident" /\ found = <<>> THEN "broad"
    ELSE "return"

route_runbook_first(stage, found) ==
    IF stage = "runbook" /\ found = <<>> THEN "alert"
    ELSE IF stage = "alert" /\ found = <<>> THEN "incident"
    ELSE "return"

\* ------------------------------------------------------------------------
\* Answer assembly (chains/rag_chain.py)
\* ------------------------------------------------------------------------
MAX_CONTEXT_DOCS == 6

SENTINEL == "No relevant information found in runbooks, incidents, alerts, logs, or tickets. Please verify the issue or update the knowledge base."

Answers == {"answer A", "answer B"}

\* characters in code point order, for sorted()
CodePoints ==
    <<"\t", "\n", " ", ".", "/", ":">> \o UpperLetters \o <<"_">> \o LowerLetters

CodePointSet == {CodePoints[i] : i \in 1..Len(CodePoints)}

CodePointOf == [c \in CodePointSet |-> CHOOSE i \in 1..Len(CodePoints) : CodePoints[i] = c]

Ord(c) == CodePointOf[c]

LexLess(a, b) ==
    \E i \in 1..(Min2(Len(a), Len(b)) + 1) :
        /\ \A j \in 1..(i - 1) : a[j] = b[j]
        /\ \/ i > Len(a) /\ i <= Len(b)
           \/ i <= Len(a) /\ i <= Len(b) /\ Ord(a[i]) < Ord(b[i])

RECURSIVE sorted(_)
sorted(S) ==
    IF S = {} THEN <<>>
    ELSE LET m == CHOOSE x \in S : \A y \in S \ {x} : LexLess(x, y)
         IN  <<m>> \o sorted(S \ {m})

\* os.path.basename: the part after the last "/"
basename(p) ==
    LET slashes == {i \in 1..Len(p) : p[i] = "/"}
    IN  IF slashes = {} THEN p
        ELSE SubSeq(p, (CHOOSE i \in slashes : \A j \in slashes : j <= i) + 1, Len(p))

NullLike == { <<"n", "o", "n", "e">>, <<"n", "u", "l", "l">> }

\* md.get(key)
md_get(md, key) == IF key \in DOMAIN md THEN md[key] ELSE NoneText

\* a Document's metadata: <<>> is None, <<md>> is the dict md
NoMetadata == <<>>

EmptyDict == [key \in {} |-> NoneText]

\* d.metadata or {}
metadata_or_empty(d) == IF d.metadata = NoMetadata THEN EmptyDict ELSE d.metadata[1]

\* the filename one document contributes to the reference set, if any
ReferenceOf_NoFilenameGuard(d) ==
    LET doc_src == md_get(metadata_or_empty(d), "source")
        filename == basename(str_strip(doc_src))
    IN  IF ~TruthyText(doc_src) THEN {}
        ELSE IF str_lower(doc_src) \in NullLike \cup {<<>>} THEN {}
        ELSE {filename}

ReferenceOf_FullPath(d) ==
    LET doc_src == md_get(metadata_or_empty(d), "source")
        filename == str_strip(doc_src)
    IN  IF ~TruthyText(doc_src) THEN {}
        ELSE IF str_lower(doc_src) \in NullLike \cup {<<>>} THEN {}
        ELSE IF filename # <<>> /\ str_lower(filename) \notin NullLike THEN {filename}
        ELSE {}

ReferenceOf(d) ==
    LET doc_src == md_get(metadata_or_empty(d), "source")
        filename == basename(str_strip(doc_src))
    IN  IF ~TruthyText(doc_src) THEN {}
        ELSE IF str_lower(doc_src) \in NullLike \cup {<<>>} THEN {}
        ELSE IF filename # <<>> /\ str_lower(filename) \notin NullLike THEN {filename}
        ELSE {}

\* _extract_reference_ids over a batch of documents
RECURSIVE extract_reference_ids_EncounterOrder(_)
extract_reference_ids_EncounterOrder(docs) ==
    IF docs = <<>> THEN <<>>
    ELSE LET r == ReferenceOf(Head(docs))
         IN  (IF r = {} THEN <<>> ELSE <<CHOOSE f \in r : TRUE>>)
                 \o extract_reference_ids_EncounterOrder(Tail(docs))

extract_reference_ids(docs) ==
    sorted(UNION {ReferenceOf(docs[i]) : i \in 1..Len(docs)})

\* the chunk text of a corpus entry
PageContent(d) == <<"chunk", d>>

\* the Document objects of the retrieved corpus entries
DocumentsOf(found) ==
    [i \in 1..Len(found) |->
        [metadata |-> <<Corpus[found[i]]>>, page_content |-> PageContent(found[i])]]

\* d.metadata.get(key, "unknown")
md_get_or_unknown(md, key) == IF key \in DOMAIN md THEN md[key] ELSE "unknown"

\* one block of the prompt context
context_block(d) ==
    [source |-> md_get_or_unknown(d.metadata[1], "source_type"),
     service |-> md_get_or_unknown(d.metadata[1], "service"),
     content |-> d.page_content]

NO_DOCUMENTS == <<[text |-> "No relevant documents found."]>>

\* _build_context: the blocks of docs[:MAX_CONTEXT_DOCS], joined in order
build_context_AllDocs(docs) ==
    IF docs = <<>> THEN NO_DOCUMENTS
    ELSE [i \in 1..Len(docs) |-> context_block(docs[i])]

build_context(docs) ==
    IF docs = <<>> THEN NO_DOCUMENTS
    ELSE [i \in 1..Min2(Len(docs), MAX_CONTEXT_DOCS) |-> context_block(docs[i])]

\* ------------------------------------------------------------------------
\* Conversation history (app.py)
\* ------------------------------------------------------------------------
MAX_HISTORY_TURNS == 4

NO_HISTORY == <<[text |-> "No prior conversation."]>>

\* history[-MAX_HISTORY_TURNS:]
last_turns(history) ==
    SubSeq(history, IF Len(history) > MAX_HISTORY_TURNS
                    THEN Len(history) - MAX_HISTORY_TURNS + 1 ELSE 1, Len(history))

\* format_history: a User line and an Assistant line per rendered turn
format_history_FirstTurns(history) ==
    IF history = <<>> THEN NO_HISTORY
    ELSE LET shown == SubSeq(history, 1, Min2(Len(history), MAX_HISTORY_TURNS))
         IN  [i \in 1..(2 * Len(shown)) |->
                 IF i % 2 = 1 THEN [user |-> shown[(i + 1) \div 2].user]
                 ELSE [assistant |-> shown[i \div 2].assistant]]

format_history(history) ==
    IF history = <<>> THEN NO_HISTORY
    ELSE LET shown == last_turns(history)
         IN  [i \in 1..(2 * Len(shown)) |->
                 IF i % 2 = 1 THEN [user |-> shown[(i + 1) \div 2].user]
                 ELSE [assistant |-> shown[i \div 2].assistant]]

\* generate_answer hands every classified intent to route_query
routes_after_classification_SkipsGeneral(intent) == intent # general_question

routes_after_classification(intent) == TRUE

\* the branch generate_answer takes on the routed documents
generate_answer_AlwaysGenerates(routedDocs) == "generate"

generate_answer(routedDocs) ==
    IF routedDocs = <<>> THEN "sentinel" ELSE "generate"

\* ------------------------------------------------------------------------
\* State
\* ------------------------------------------------------------------------
VARIABLES
    pc,          \* position of each thread in its current call
    entry,       \* the interface function the thread's caller invoked
    intent,      \* the intent of the call (argument, or classify_intent's result)
    service,     \* the service argument
    rawText,     \* the text the classification chain returned
    stage,       \* the search route_query is at
    handle,      \* the vector store get_vectorstore returned to the thread
    searches,    \* the searches the call has issued, with their results
    routed,      \* the documents route_query returned to generate_answer
    outcome,     \* what the call returned or raised
    genCalls,    \* invocations of the generation chain in the call
    genInput,    \* what the generation chain was invoked with
    classifyCalls, \* the queries the classification chain was invoked with
    indexBuilt,  \* the "vector_store" directory has been persisted
    cache,       \* the lru_cache slot of get_vectorstore
    loadCount,   \* executions of load_vector_index
    loadsOk,     \* executions of load_vector_index that returned an index
    fn,          \* the helper function applied on its own, "none" outside a call
    args,        \* its arguments
    result,      \* the value it returned
    routeCalls,  \* calls of route_query in the call
    program,     \* the front end the process runs: "cli", "http" or "none"
    fpc,         \* the front end's position in its request handling
    query,       \* the stripped query of the request
    feIntent,    \* what the front end's classify_intent call returned
    response,    \* what the request shows or returns
    chat_history,\* the module-level list of (user, assistant) turns
    structCalls  \* invocations of the structured-extraction chain in the request

vars == <<pc, entry, intent, service, rawText, stage, handle, searches, routed,
          outcome, genCalls, genInput, classifyCalls, indexBuilt, cache,
          loadCount, loadsOk,
          fn, args, result, routeCalls, program, fpc, query, feIntent,
          response, chat_history, structCalls>>

NoResponse == [kind |-> "none", status |-> 0, answer |-> "", guess |-> <<>>, reference_docs |-> <<>>]

NoInput == [context |-> <<>>, history |-> <<>>]

NoOutcome == [status |-> "none", error |-> "", answer |-> "", refs |-> <<>>, docs |-> <<>>]

\* the call ends with the exception e
Raised_Swallowed(e) == [NoOutcome EXCEPT !.status = "ok"]

Raised(e) == [NoOutcome EXCEPT !.status = "error", !.error = e]

OtherIntent == <<"o", "t", "h", "e", "r">>

Init ==
    /\ pc = [t \in Threads |-> "idle"]
    /\ entry = [t \in Threads |-> "none"]
    /\ intent = [t \in Threads |-> <<>>]
    /\ service = [t \in Threads |-> None]
    /\ rawText = [t \in Threads |-> <<>>]
    /\ stage = [t \in Threads |-> "none"]
    /\ handle = [t \in Threads |-> NoHandle]
    /\ searches = [t \in Threads |-> <<>>]
    /\ routed = [t \in Threads |-> <<>>]
    /\ outcome = [t \in Threads |-> NoOutcome]
    /\ genCalls = [t \in Threads |-> 0]
    /\ genInput = [t \in Threads |-> NoInput]
    /\ classifyCalls = [t \in Threads |-> <<>>]
    /\ indexBuilt = FALSE
    /\ cache = NoHandle
    /\ loadCount = 0
    /\ loadsOk = 0
    /\ fn = "none"
    /\ args = <<>>
    /\ result = <<>>
    /\ routeCalls = [t \in Threads |-> 0]
    /\ program = "none"
    /\ fpc = "off"
    /\ query = <<>>
    /\ feIntent = <<>>
    /\ response = NoResponse
    /\ chat_history = <<>>
    /\ structCalls = 0

shared == <<indexBuilt, cache, loadCount, loadsOk>>

pure == <<fn, args, result>>

front == <<program, fpc, query, feIntent, response, chat_history, structCalls>>

\* ------------------------------------------------------------------------
\* Calls into the core
\* ------------------------------------------------------------------------
CallClassifyIntent(t) ==
    /\ pc[t] = "idle"
    /\ entry' = [entry EXCEPT ![t] = "classify_intent"]
    /\ pc' = [pc EXCEPT ![t] = "classify"]
    /\ UNCHANGED <<routeCalls, classifyCalls, pure, front>>
    /\ UNCHANGED <<intent, service, rawText, stage, handle, searches, routed,
                   outcome, genCalls, genInput, shared>>

CallRouteQuery(t) ==
    /\ pc[t] = "idle"
    /\ \E i \in allowed \cup {OtherIntent}, svc \in Services :
         /\ intent' = [intent EXCEPT ![t] = i]
         /\ service' = [service EXCEPT ![t] = svc]
         /\ stage' = [stage EXCEPT ![t] = route_query(i)]
    /\ entry' = [entry EXCEPT ![t] = "route_query"]
    /\ pc' = [pc EXCEPT ![t] = "get_vectorstore"]
    /\ routeCalls' = [routeCalls EXCEPT ![t] = @ + 1]
    /\ UNCHANGED <<classifyCalls, pure, front>>
    /\ UNCHANGED <<rawText, handle, searches, routed, outcome, genCalls, genInput, shared>>

CallGenerateAnswerWith(t, services) ==
    /\ pc[t] = "idle"
    /\ \E svc \in services : service' = [service EXCEPT ![t] = svc]
    /\ entry' = [entry EXCEPT ![t] = "generate_answer"]
    /\ pc' = [pc EXCEPT ![t] = "classify"]
    /\ UNCHANGED <<routeCalls, classifyCalls, pure, front>>
    /\ UNCHANGED <<intent, rawText, stage, handle, searches, routed, outcome,
                   genCalls, genInput, shared>>

CallGenerateAnswer(t) == CallGenerateAnswerWith(t, Services)

\* classify_intent: the chain returns a text from outs (or raises), the text
\* is normalised; inside generate_answer the result is handed to route_query
ClassifyStep(t, outs) ==
    /\ pc[t] = "classify"
    /\ \/ \E r \in outs :
            /\ rawText' = [rawText EXCEPT ![t] = r]
            /\ intent' = [intent EXCEPT ![t] = classify_intent(r)]
            /\ IF entry[t] = "classify_intent"
               THEN /\ outcome' = [outcome EXCEPT ![t] = [NoOutcome EXCEPT !.status = "ok"]]
                    /\ pc' = [pc EXCEPT ![t] = "done"]
                    /\ UNCHANGED <<stage, routeCalls>>
               ELSE IF routes_after_classification(classify_intent(r))
               THEN /\ stage' = [stage EXCEPT ![t] = route_query(classify_intent(r))]
                    /\ routeCalls' = [routeCalls EXCEPT ![t] = @ + 1]
                    /\ pc' = [pc EXCEPT ![t] = "get_vectorstore"]
                    /\ UNCHANGED outcome
               ELSE /\ outcome' = [outcome EXCEPT ![t] =
                                      [NoOutcome EXCEPT !.status = "ok", !.answer = SENTINEL]]
                    /\ pc' = [pc EXCEPT ![t] = "done"]
                    /\ UNCHANGED <<stage, routeCalls>>
       \/ /\ outcome' = [outcome EXCEPT ![t] = Raised("classification_failed")]
          /\ pc' = [pc EXCEPT ![t] = "done"]
          /\ UNCHANGED <<rawText, intent, stage, routeCalls>>
    /\ classifyCalls' = [classifyCalls EXCEPT ![t] = Append(@, query)]
    /\ UNCHANGED <<pure, front>>
    /\ UNCHANGED <<entry, service, handle, searches, routed, genCalls, genInput, shared>>

Classify(t) == ClassifyStep(t, RawSample)

\* get_vectorstore: the lru_cache lookup
GetVectorstore_NeverCached(t) ==
    /\ pc[t] = "get_vectorstore"
    /\ pc' = [pc EXCEPT ![t] = "load"]
    /\ UNCHANGED handle
    /\ UNCHANGED <<routeCalls, classifyCalls, pure, front>>
    /\ UNCHANGED <<entry, intent, service, rawText, stage, searches, routed,
                   outcome, genCalls, genInput, shared>>

GetVectorstore(t) ==
    /\ pc[t] = "get_vectorstore"
    /\ IF cache # NoHandle
       THEN /\ handle' = [handle EXCEPT ![t] = cache]
            /\ pc' = [pc EXCEPT ![t] = "invoke"]
       ELSE /\ pc' = [pc EXCEPT ![t] = "load"]
            /\ UNCHANGED handle
    /\ UNCHANGED <<routeCalls, classifyCalls, pure, front>>
    /\ UNCHANGED <<entry, intent, service, rawText, stage, searches, routed,
                   outcome, genCalls, genInput, shared>>

\* get_vectorstore after a miss: load_vector_index runs and its result is
\* stored in the cache unless a result is already there; an exception is
\* not cached and propagates out of the call
LoadVectorIndex(t) ==
    /\ pc[t] = "load"
    /\ loadCount < MaxLoads
    /\ loadCount' = loadCount + 1
    /\ LET r == load_vector_index(indexBuilt, loadCount + 1)
       IN  IF r.ok
           THEN /\ loadsOk' = loadsOk + 1
                /\ cache' = IF cache = NoHandle THEN r.handle ELSE cache
                /\ handle' = [handle EXCEPT ![t] = r.handle]
                /\ pc' = [pc EXCEPT ![t] = "invoke"]
                /\ UNCHANGED <<outcome, stage>>
           ELSE /\ outcome' = [outcome EXCEPT ![t] = Raised("index_unavailable")]
                /\ pc' = [pc EXCEPT ![t] = "done"]
                /\ stage' = [stage EXCEPT ![t] = "raised"]
                /\ UNCHANGED <<loadsOk, cache, handle>>
    /\ UNCHANGED <<routeCalls, classifyCalls, pure, front>>
    /\ UNCHANGED <<entry, intent, service, rawText, searches, routed,
                   genCalls, genInput, indexBuilt>>

\* _retrieve_with_filter: the retriever route_query builds for its current stage
Retriever(t) ==
    LET s == StageSearch(stage[t], service[t])
    IN  get_filtered_retriever(<<s.flt>>, s.top_k)

\* route_query hands found back to its caller
RouteReturns(t, found) ==
    /\ stage' = [stage EXCEPT ![t] = "returned"]
    /\ routed' = [routed EXCEPT ![t] = found]
    /\ IF entry[t] = "route_query"
       THEN /\ outcome' = [outcome EXCEPT ![t] = [NoOutcome EXCEPT !.status = "ok", !.docs = found]]
            /\ pc' = [pc EXCEPT ![t] = "done"]
       ELSE IF generate_answer(found) = "sentinel"
       THEN /\ outcome' = [outcome EXCEPT ![t] =
                              [NoOutcome EXCEPT !.status = "ok", !.answer = SENTINEL,
                                                !.refs = <<>>, !.docs = found]]
            /\ pc' = [pc EXCEPT ![t] = "done"]
       ELSE /\ pc' = [pc EXCEPT ![t] = "generate"]
            /\ UNCHANGED outcome

\* retriever.invoke: the search runs on the thread's vector store; then the
\* router returns the result or moves to the next search of the cascade
Invoke(t) ==
    /\ pc[t] = "invoke"
    /\ \/ \E found \in SearchResults(handle[t].docs, Retriever(t).search_kwargs) :
            /\ searches' = [searches EXCEPT ![t] =
                   Append(@, [retriever |-> Retriever(t), status |-> "ok", docs |-> found])]
            /\ IF route_runbook_first(stage[t], found) = "return"
               THEN RouteReturns(t, found)
               ELSE /\ stage' = [stage EXCEPT ![t] = route_runbook_first(stage[t], found)]
                    /\ pc' = [pc EXCEPT ![t] = "get_vectorstore"]
                    /\ UNCHANGED <<outcome, routed>>
       \/ /\ searches' = [searches EXCEPT ![t] =
                   Append(@, [retriever |-> Retriever(t), status |-> "error", docs |-> <<>>])]
          /\ outcome' = [outcome EXCEPT ![t] = Raised("search_failed")]
          /\ pc' = [pc EXCEPT ![t] = "done"]
          /\ stage' = [stage EXCEPT ![t] = "raised"]
          /\ UNCHANGED routed
    /\ UNCHANGED <<routeCalls, classifyCalls, pure, front>>
    /\ UNCHANGED <<entry, intent, service, rawText, handle, genCalls, genInput, shared>>

\* generate_answer on a non-empty routed sequence: the generation chain runs
Generate(t) ==
    /\ pc[t] = "generate"
    /\ genCalls' = [genCalls EXCEPT ![t] = @ + 1]
    /\ genInput' = [genInput EXCEPT ![t] =
           [context |-> build_context(DocumentsOf(routed[t])),
            history |-> IF fpc = "await" THEN format_history(chat_history) ELSE <<>>]]
    /\ \/ \E a \in Answers :
            outcome' = [outcome EXCEPT ![t] =
                [NoOutcome EXCEPT !.status = "ok", !.answer = a,
                                  !.refs = extract_reference_ids(DocumentsOf(routed[t])),
                                  !.docs = routed[t]]]
       \/ outcome' = [outcome EXCEPT ![t] = Raised("generation_failed")]
    /\ pc' = [pc EXCEPT ![t] = "done"]
    /\ UNCHANGED <<routeCalls, classifyCalls, pure, front>>
    /\ UNCHANGED <<entry, intent, service, rawText, stage, handle, searches,
                   routed, shared>>

\* the per-call state of a thread is back to what it was before the call
CallOver(t) ==
    /\ pc' = [pc EXCEPT ![t] = "idle"]
    /\ entry' = [entry EXCEPT ![t] = "none"]
    /\ intent' = [intent EXCEPT ![t] = <<>>]
    /\ service' = [service EXCEPT ![t] = None]
    /\ rawText' = [rawText EXCEPT ![t] = <<>>]
    /\ stage' = [stage EXCEPT ![t] = "none"]
    /\ handle' = [handle EXCEPT ![t] = NoHandle]
    /\ searches' = [searches EXCEPT ![t] = <<>>]
    /\ routed' = [routed EXCEPT ![t] = <<>>]
    /\ outcome' = [outcome EXCEPT ![t] = NoOutcome]
    /\ genCalls' = [genCalls EXCEPT ![t] = 0]
    /\ genInput' = [genInput EXCEPT ![t] = NoInput]
    /\ classifyCalls' = [classifyCalls EXCEPT ![t] = <<>>]
    /\ routeCalls' = [routeCalls EXCEPT ![t] = 0]

\* the call is over; the thread takes the next request
Return(t) ==
    /\ pc[t] = "done"
    /\ CallOver(t)
    /\ UNCHANGED <<pure, front>>
    /\ UNCHANGED shared

\* build_vector_index persists the index (the offline ingestion pipeline)
BuildVectorIndex ==
    /\ ~indexBuilt
    /\ indexBuilt' = TRUE
    /\ UNCHANGED <<routeCalls, classifyCalls, pure, front>>
    /\ UNCHANGED <<pc, entry, intent, service, rawText, stage, handle, searches,
                   routed, outcome, genCalls, genInput, cache, loadCount, loadsOk>>

\* One caller at a time (the CLI process, the evaluation harness)
Next ==
    \/ BuildVectorIndex
    \/ CallClassifyIntent(Main)
    \/ CallRouteQuery(Main)
    \/ CallGenerateAnswer(Main)
    \/ Classify(Main)
    \/ GetVectorstore(Main)
    \/ LoadVectorIndex(Main)
    \/ Invoke(Main)
    \/ Generate(Main)
    \/ Return(Main)

Spec == Init /\ [][Next]_vars

\* Concurrent request threads of the HTTP server, each running
\* generate_answer(query, history) with the default service
ServerTexts == {runbook_lookup, log_analysis}

ServeRequest(t) == CallGenerateAnswerWith(t, {None})

\* classify_intent inside generate_answer, over the texts of a server request
ServerClassify_ReusesFrontIntent(t) ==
    /\ pc[t] = "classify"
    /\ intent' = [intent EXCEPT ![t] = feIntent]
    /\ stage' = [stage EXCEPT ![t] = route_query(feIntent)]
    /\ routeCalls' = [routeCalls EXCEPT ![t] = @ + 1]
    /\ pc' = [pc EXCEPT ![t] = "get_vectorstore"]
    /\ UNCHANGED <<rawText, outcome, classifyCalls, pure, front>>
    /\ UNCHANGED <<entry, service, handle, searches, routed, genCalls, genInput, shared>>

ServerClassify(t) == ClassifyStep(t, ServerTexts)

NextServer ==
    \/ BuildVectorIndex
    \/ \E t \in Threads :
         \/ ServeRequest(t)
         \/ ServerClassify(t)
         \/ GetVectorstore(t)
         \/ LoadVectorIndex(t)
         \/ Invoke(t)
         \/ Generate(t)
         \/ Return(t)

SpecServer == Init /\ [][NextServer]_vars

\* classify_intent alone, over every output of the classification chain
ClassifyAny(t) == ClassifyStep(t, RawOutputs)

NextIntent ==
    \/ CallClassifyIntent(Main)
    \/ ClassifyAny(Main)
    \/ Return(Main)

SpecIntent == Init /\ [][NextIntent]_vars

\* ------------------------------------------------------------------------
\* Helper functions applied on their own
\* ------------------------------------------------------------------------
core == <<pc, entry, intent, service, rawText, stage, handle, searches, routed,
          outcome, genCalls, genInput, classifyCalls, routeCalls, shared, front>>

\* the helper has returned; the next application can start
ReturnHelper ==
    /\ fn # "none"
    /\ fn' = "none"
    /\ args' = <<>>
    /\ result' = <<>>
    /\ UNCHANGED core

Doc(src) == [metadata |-> <<[source_type |-> "runbook", source |-> src]>>]

\* documents with usable sources, some padded with whitespace
SourcedDocs ==
    { Doc(<<"r", "u", "n", "b", "o", "o", "k", "s", "/", "d", "i", "s", "k", "_", "s", "p", "i", "k", "e", ".", "t", "x", "t">>),
      Doc(<<"k", "b", "/", "d", "i", "s", "k", "_", "s", "p", "i", "k", "e", ".", "t", "x", "t">>),
      Doc(<<"d", "i", "s", "k", "_", "s", "p", "i", "k", "e", ".", "t", "x", "t">>),
      Doc(<<"t", "i", "c", "k", "e", "t", "s", "/", "O", "u", "t", "a", "g", "e", ".", "m", "d">>),
      Doc(<<" ", "l", "o", "g", "s", "/", "a", "p", "p", ".", "l", "o", "g", "\n">>) }

\* documents whose source is null-like, as a whole or in its last component
NullSourceDocs ==
    { Doc(<<"N", "o", "n", "e">>),
      Doc(<<"n", "U", "l", "L">>),
      Doc(<<>>),
      Doc(NoneText),
      Doc(<<" ">>),
      Doc(<<"t", "i", "c", "k", "e", "t", "s", "/", "N", "U", "L", "L">>),
      Doc(<<"r", "u", "n", "b", "o", "o", "k", "s", "/">>) }

\* documents without a source: no key, empty metadata, no metadata
UnsourcedDocs ==
    { [metadata |-> <<[source_type |-> "log"]>>],
      [metadata |-> <<EmptyDict>>],
      [metadata |-> NoMetadata] }

RefDocs == SourcedDocs \cup NullSourceDocs \cup UnsourcedDocs

Batches == UNION { [1..n -> RefDocs] : n \in 0..MaxBatch }

CallExtractReferenceIds ==
    /\ fn = "none"
    /\ \E docs \in Batches :
         /\ args' = docs
         /\ result' = extract_reference_ids(docs)
    /\ fn' = "_extract_reference_ids"
    /\ UNCHANGED core

NextRefs ==
    \/ CallExtractReferenceIds
    \/ ReturnHelper

SpecRefs == Init /\ [][NextRefs]_vars

\* build_metadata_filter over its three optional arguments
SourceTypeArgs == {None, "", "runbook", "alert", "log"}

ServiceArgs == {None, "", "unknown", "UNKNOWN", "trading-db"}

PriorityArgs == {NoPriority} \cup {<<n>> : n \in -1..MaxPriority}

CallBuildMetadataFilter ==
    /\ fn = "none"
    /\ \E st \in SourceTypeArgs, svc \in ServiceArgs, mp \in PriorityArgs :
         /\ args' = [source_type |-> st, service |-> svc, max_priority |-> mp]
         /\ result' = build_metadata_filter(st, svc, mp)
    /\ fn' = "build_metadata_filter"
    /\ UNCHANGED core

NextFilter ==
    \/ CallBuildMetadataFilter
    \/ ReturnHelper

SpecFilter == Init /\ [][NextFilter]_vars

\* the retriever factories over their optional arguments
TopKArgs == {NoTopK} \cup {<<n>> : n \in 0..MaxTopK}

FilterArgs ==
    {NoFilter} \cup
    { <<build_metadata_filter(st, svc, mp)>> :
          st \in SourceTypeArgs, svc \in ServiceArgs, mp \in {NoPriority, <<2>>} }

CallGetBaseRetriever ==
    /\ fn = "none"
    /\ \E top_k \in TopKArgs :
         /\ args' = [top_k |-> top_k]
         /\ result' = get_base_retriever(top_k)
    /\ fn' = "get_base_retriever"
    /\ UNCHANGED core

CallGetFilteredRetriever ==
    /\ fn = "none"
    /\ \E metadata_filter \in FilterArgs, top_k \in TopKArgs :
         /\ args' = [metadata_filter |-> metadata_filter, top_k |-> top_k]
         /\ result' = get_filtered_retriever(metadata_filter, top_k)
    /\ fn' = "get_filtered_retriever"
    /\ UNCHANGED core

NextRetriever ==
    \/ CallGetBaseRetriever
    \/ CallGetFilteredRetriever
    \/ ReturnHelper

SpecRetriever == Init /\ [][NextRetriever]_vars

\* _build_context over batches longer than any route_query returns, next to
\* the calls of the core: complete metadata, no service, empty metadata
ContextDocs ==
    { [metadata |-> <<Corpus[1]>>, page_content |-> PageContent(1)],
      [metadata |-> <<[source_type |-> "log"]>>, page_content |-> PageContent(9)],
      [metadata |-> <<EmptyDict>>, page_content |-> PageContent(10)] }

ContextBatches == UNION { [1..n -> ContextDocs] : n \in 0..MaxContextBatch }

\* applied in a fresh process, before any call of the core
CallBuildContext ==
    /\ fn = "none"
    /\ pc[Main] = "idle"
    /\ ~indexBuilt
    /\ loadCount = 0
    /\ \E docs \in ContextBatches :
         /\ args' = docs
         /\ result' = build_context(docs)
    /\ fn' = "_build_context"
    /\ UNCHANGED core

CoreStep ==
    /\ fn = "none"
    /\ Next

NextAnswer ==
    \/ CoreStep
    \/ CallBuildContext
    \/ ReturnHelper

SpecAnswer == Init /\ [][NextAnswer]_vars

\* format_history over histories longer than MAX_HISTORY_TURNS
HistoryTurns ==
    { [user |-> <<"q", "1">>, assistant |-> "answer A"],
      [user |-> <<"q", "2">>, assistant |-> "answer B"],
      [user |-> <<"q", "1">>, assistant |-> "answer B"] }

Histories == UNION { [1..n -> HistoryTurns] : n \in 0..MaxHistory }

CallFormatHistory ==
    /\ fn = "none"
    /\ \E history \in Histories :
         /\ args' = history
         /\ result' = format_history(history)
    /\ fn' = "format_history"
    /\ UNCHANGED core

NextHistory ==
    \/ CallFormatHistory
    \/ ReturnHelper

SpecHistory == Init /\ [][NextHistory]_vars

\* ------------------------------------------------------------------------
\* Front ends: the CLI loop (app.py) and the /ask handler (ui/app.py)
\* ------------------------------------------------------------------------
OUT_OF_SCOPE == "I am an L2 production support assistant. Please ask questions related to production support issues."

ExitWords == { <<"e", "x", "i", "t">>, <<"q", "u", "i", "t">> }

Question == <<"d", "i", "s", "k", "?">>

\* what the user types or posts
QueryInputs == { <<>>, <<" ">>, <<" ", "E", "x", "i", "t", "\n">>, <<" ">> \o Question }

\* request.get_json() returned None
NoBody == NoneText

\* texts the classification chain returns to the front end's call
FrontTexts ==
    { runbook_lookup, alert_investigation,
      <<" ">> \o TitleCased(general_question) \o <<"\n">> }

\* reference_docs the structured-extraction chain fills in on its own
Guesses == { <<>>, << <<"g", "u", "e", "s", "s", ".", "t", "x", "t">> >> }

\* the per-call state of the core
call == <<pc, entry, intent, service, rawText, stage, handle, searches, routed,
          outcome, genCalls, genInput, routeCalls>>

\* the guardrail on the front end's own classification
front_short_circuits_Never(i) == FALSE

front_short_circuits(i) == i = general_question

\* structured.reference_docs = reference_docs
inject_references_KeepsGuess(structured, reference_docs) == structured

inject_references(structured, reference_docs) ==
    [structured EXCEPT !.reference_docs = reference_docs]

\* the except branch: the CLI prints the error, /ask returns status 500
error_response(prog) ==
    [NoResponse EXCEPT !.kind = "error", !.status = IF prog = "http" THEN 500 ELSE 0]

out_of_scope_response(prog) ==
    [NoResponse EXCEPT !.kind = "message", !.answer = OUT_OF_SCOPE,
                       !.status = IF prog = "http" THEN 200 ELSE 0]

\* the process starts: main() enters its loop, or the Flask app serves
Launch(prog) ==
    /\ program = "none"
    /\ program' = prog
    /\ fpc' = "read"
    /\ UNCHANGED <<call, classifyCalls, shared, pure, query, feIntent, response, chat_history, structCalls>>

LaunchCli == Launch("cli")

LaunchHttp == Launch("http")

\* main(): input().strip(); an empty line is skipped, exit or quit in any
\* letter case ends the loop, anything else is a question
CliRead ==
    /\ program = "cli"
    /\ fpc = "read"
    /\ Len(chat_history) < MaxTurns
    /\ \E raw \in QueryInputs :
         LET q == str_strip(raw)
         IN  IF q = <<>> THEN UNCHANGED <<fpc, query, response>>
             ELSE IF str_lower(q) \in ExitWords
             THEN /\ fpc' = "exited"
                  /\ response' = [NoResponse EXCEPT !.kind = "exit"]
                  /\ query' = q
             ELSE /\ fpc' = "classify"
                  /\ query' = q
                  /\ UNCHANGED response
    /\ UNCHANGED <<call, classifyCalls, shared, pure, program, feIntent, chat_history, structCalls>>

\* KeyboardInterrupt at the prompt: sys.exit(0)
CliInterrupt ==
    /\ program = "cli"
    /\ fpc = "read"
    /\ fpc' = "exited"
    /\ response' = [NoResponse EXCEPT !.kind = "interrupted"]
    /\ UNCHANGED <<call, classifyCalls, shared, pure, program, query, feIntent, chat_history, structCalls>>

\* ask(): the posted query, stripped; an empty query is answered with
\* status 400, a body that is not JSON raises into the except branch
HttpReceive ==
    /\ program = "http"
    /\ fpc = "read"
    /\ Len(chat_history) < MaxTurns
    /\ \E raw \in QueryInputs \cup {NoBody} :
         IF raw = NoBody
         THEN /\ response' = error_response("http")
              /\ fpc' = "respond"
              /\ UNCHANGED query
         ELSE IF str_strip(raw) = <<>>
         THEN /\ response' = [NoResponse EXCEPT !.kind = "error", !.status = 400]
              /\ fpc' = "respond"
              /\ UNCHANGED query
         ELSE /\ fpc' = "classify"
              /\ query' = str_strip(raw)
              /\ UNCHANGED response
    /\ UNCHANGED <<call, classifyCalls, shared, pure, program, feIntent, chat_history, structCalls>>

\* the front end's classify_intent call and its guardrail; past it,
\* generate_answer is called with the default service
FrontClassify ==
    /\ fpc = "classify"
    /\ \/ \E r \in FrontTexts :
            /\ feIntent' = classify_intent(r)
            /\ IF front_short_circuits(classify_intent(r))
               THEN /\ response' = out_of_scope_response(program)
                    /\ fpc' = "respond"
                    /\ UNCHANGED call
               ELSE /\ fpc' = "await"
                    /\ pc' = [pc EXCEPT ![Main] = "classify"]
                    /\ entry' = [entry EXCEPT ![Main] = "generate_answer"]
                    /\ UNCHANGED <<response, intent, service, rawText, stage, handle,
                                   searches, routed, outcome, genCalls, genInput, routeCalls>>
       \/ /\ response' = error_response(program)
          /\ fpc' = "respond"
          /\ UNCHANGED <<feIntent, call>>
    /\ classifyCalls' = [classifyCalls EXCEPT ![Main] = Append(@, query)]
    /\ UNCHANGED <<shared, pure, program, query, chat_history, structCalls>>

\* generate_answer is over: an exception goes to the except branch;
\* otherwise to_structured_response runs on the answer, its reference_docs
\* are replaced, and the turn is appended to chat_history
FrontFinish_AppendsBeforeStructuring ==
    /\ fpc = "await"
    /\ pc[Main] = "done"
    /\ IF outcome[Main].status = "error"
       THEN /\ response' = error_response(program)
            /\ UNCHANGED <<chat_history, structCalls>>
       ELSE /\ structCalls' = structCalls + 1
            /\ \/ \E g \in Guesses :
                    LET structured ==
                            inject_references([answer |-> outcome[Main].answer, reference_docs |-> g],
                                              outcome[Main].refs)
                    IN  /\ response' = [kind |-> "answer",
                                        status |-> IF program = "http" THEN 200 ELSE 0,
                                        answer |-> structured.answer,
                                        guess |-> g,
                                        reference_docs |-> structured.reference_docs]
                        /\ chat_history' = Append(chat_history,
                               [user |-> query, assistant |-> outcome[Main].answer])
               \/ /\ response' = error_response(program)
                  /\ chat_history' = Append(chat_history,
                         [user |-> query, assistant |-> outcome[Main].answer])
    /\ fpc' = "respond"
    /\ UNCHANGED <<call, classifyCalls, shared, pure, program, query, feIntent>>

FrontFinish ==
    /\ fpc = "await"
    /\ pc[Main] = "done"
    /\ IF outcome[Main].status = "error"
       THEN /\ response' = error_response(program)
            /\ UNCHANGED <<chat_history, structCalls>>
       ELSE /\ structCalls' = structCalls + 1
            /\ \/ \E g \in Guesses :
                    LET structured ==
                            inject_references([answer |-> outcome[Main].answer, reference_docs |-> g],
                                              outcome[Main].refs)
                    IN  /\ response' = [kind |-> "answer",
                                        status |-> IF program = "http" THEN 200 ELSE 0,
                                        answer |-> structured.answer,
                                        guess |-> g,
                                        reference_docs |-> structured.reference_docs]
                        /\ chat_history' = Append(chat_history,
                               [user |-> query, assistant |-> outcome[Main].answer])
               \/ /\ response' = error_response(program)
                  /\ UNCHANGED chat_history
    /\ fpc' = "respond"
    /\ UNCHANGED <<call, classifyCalls, shared, pure, program, query, feIntent>>

\* the request is over: the loop continues, the handler has returned
Respond_StopsOnError ==
    /\ fpc = "respond"
    /\ fpc' = IF response.kind = "error" THEN "exited" ELSE "read"
    /\ response' = NoResponse
    /\ query' = <<>>
    /\ feIntent' = <<>>
    /\ structCalls' = 0
    /\ CallOver(Main)
    /\ UNCHANGED <<shared, pure, program, chat_history>>

Respond ==
    /\ fpc = "respond"
    /\ fpc' = "read"
    /\ response' = NoResponse
    /\ query' = <<>>
    /\ feIntent' = <<>>
    /\ structCalls' = 0
    /\ CallOver(Main)
    /\ UNCHANGED <<shared, pure, program, chat_history>>

NextFront ==
    \/ BuildVectorIndex
    \/ LaunchCli
    \/ LaunchHttp
    \/ CliRead
    \/ CliInterrupt
    \/ HttpReceive
    \/ FrontClassify
    \/ ServerClassify(Main)
    \/ GetVectorstore(Main)
    \/ LoadVectorIndex(Main)
    \/ Invoke(Main)
    \/ Generate(Main)
    \/ FrontFinish
    \/ Respond

SpecFront == Init /\ [][NextFront]_vars

\* ------------------------------------------------------------------------
\* Properties
\* ------------------------------------------------------------------------
FilterOf(srch) ==
    IF "filter" \in DOMAIN srch.retriever.search_kwargs
    THEN srch.retriever.search_kwargs["filter"]
    ELSE EmptyFilter

SourceTypeOf(srch) ==
    IF "source_type" \in DOMAIN FilterOf(srch) THEN FilterOf(srch)["source_type"] ELSE None

Found(srch) == srch.status = "ok" /\ srch.docs # <<>>

FoundNothing(srch) == srch.status = "ok" /\ srch.docs = <<>>

Routing(t) == entry[t] \in {"route_query", "generate_answer"} /\ stage[t] # "none"

\* C1: in a runbook_lookup call, once the runbook-filtered search has returned
\* a non-empty sequence, route_query has returned exactly that sequence and the
\* call has issued no other search (no alert- or incident-filtered one).
C1_RunbookResultReturnedAlone ==
    \A t \in Threads :
        Routing(t) /\ intent[t] = runbook_lookup =>
            \A i \in DOMAIN searches[t] :
                SourceTypeOf(searches[t][i]) = "runbook" /\ Found(searches[t][i]) =>
                    /\ stage[t] = "returned"
                    /\ routed[t] = searches[t][i].docs
                    /\ Len(searches[t]) = 1

C1_Witness ==
    \E t \in Threads :
        /\ intent[t] = runbook_lookup
        /\ stage[t] = "returned"
        /\ Len(searches[t]) = 1
        /\ routed[t] = <<2, 1>>

\* C2: in a runbook_lookup call the alert-filtered search is issued only as the
\* second search, after the runbook-filtered search returned empty; when it
\* returns a non-empty sequence, route_query has returned exactly that
\* sequence and no incident-filtered search is issued.
C2_AlertFallbackOnly ==
    \A t \in Threads :
        Routing(t) /\ intent[t] = runbook_lookup =>
            /\ stage[t] = "alert" =>
                  /\ Len(searches[t]) = 1
                  /\ SourceTypeOf(searches[t][1]) = "runbook"
                  /\ FoundNothing(searches[t][1])
            /\ \A i \in DOMAIN searches[t] :
                  SourceTypeOf(searches[t][i]) = "alert" =>
                      /\ i = 2
                      /\ SourceTypeOf(searches[t][1]) = "runbook"
                      /\ FoundNothing(searches[t][1])
                      /\ Found(searches[t][i]) =>
                            /\ stage[t] = "returned"
                            /\ routed[t] = searches[t][i].docs
                            /\ Len(searches[t]) = 2

C2_Witness ==
    \E t \in Threads :
        /\ intent[t] = runbook_lookup
        /\ stage[t] = "returned"
        /\ Len(searches[t]) = 2
        /\ FoundNothing(searches[t][1])
        /\ routed[t] = <<3>>

\* C3: a runbook_lookup call issues at most three searches, filtered to
\* runbook, alert and incident in that order and never to ticket or log or to
\* no source type; when runbook and alert both returned empty, route_query
\* has returned exactly the result of the incident-filtered search, empty or
\* not, once that search has returned.
C3_IncidentIsTerminal ==
    \A t \in Threads :
        Routing(t) /\ intent[t] = runbook_lookup =>
            /\ Len(searches[t]) <= 3
            /\ stage[t] \in {"runbook", "alert", "incident", "returned", "raised"}
            /\ \A i \in DOMAIN searches[t] :
                  SourceTypeOf(searches[t][i]) = <<"runbook", "alert", "incident">>[i]
            /\ Len(searches[t]) = 3 =>
                  /\ FoundNothing(searches[t][1])
                  /\ FoundNothing(searches[t][2])
                  /\ stage[t] \in {"returned", "raised"}
                  /\ searches[t][3].status = "ok" =>
                        stage[t] = "returned" /\ routed[t] = searches[t][3].docs
            /\ Len(searches[t]) = 2 /\ FoundNothing(searches[t][2]) => stage[t] = "incident"

C3_Witness ==
    \E t \in Threads :
        /\ intent[t] = runbook_lookup
        /\ Len(searches[t]) = 3
        /\ stage[t] = "returned"
        /\ pc[t] = "done"
        /\ routed[t] = <<>>

\* the texts that equal a label up to letter case and surrounding whitespace
LabelVariants ==
    [label \in allowed |->
        { pre \o body \o post : pre \in Pads, post \in Pads, body \in Casings(label) }]

AnyLabelVariant == UNION {LabelVariants[l] : l \in allowed}

Classified(t) ==
    entry[t] = "classify_intent" /\ pc[t] = "done" /\ outcome[t].status = "ok"

\* C4: whatever text the classification chain returns, classify_intent
\* returns one of the six labels, and it returns runbook_lookup whenever the
\* text is not a label up to letter case and surrounding whitespace.
C4_AlwaysOneOfSix ==
    \A t \in Threads :
        Classified(t) =>
            /\ intent[t] \in allowed
            /\ rawText[t] \notin AnyLabelVariant =>
                  intent[t] = runbook_lookup

C4_Witness ==
    \E t \in Threads :
        /\ Classified(t)
        /\ rawText[t] = <<"I", "n", "t", "e", "n", "t", ":", " ">> \o log_analysis
        /\ intent[t] = runbook_lookup

\* C5: a text that equals a label up to letter case and surrounding
\* whitespace is classified as that label, in lower case.
C5_NormalizedBeforeMembership ==
    \A t \in Threads :
        Classified(t) =>
            \A l \in allowed : rawText[t] \in LabelVariants[l] => intent[t] = l

C5_Witness ==
    \E t \in Threads :
        /\ Classified(t)
        /\ rawText[t] = <<" ">> \o TitleCased(log_analysis) \o <<"\n">>
        /\ intent[t] = log_analysis

\* the filter constrains the service exactly when a service other than
\* "unknown" was passed, and then to that service
ServiceConstraintOnly(t, flt) ==
    /\ "service" \in DOMAIN flt <=> service[t] \notin {None, "", "unknown"}
    /\ "service" \in DOMAIN flt => flt["service"] = service[t]

\* C6: an incident_analysis call issues one search, filtered to source_type
\* incident and the service; a log_analysis call issues one search, filtered
\* to source_type log and the service; the call never issues a second search
\* and returns the result of its search unchanged.
C6_SingleFilteredSearch ==
    \A t \in Threads :
        Routing(t) /\ intent[t] \in {incident_analysis, log_analysis} =>
            /\ Len(searches[t]) <= 1
            /\ stage[t] \in {"incident_analysis", "log_analysis", "returned", "raised"}
            /\ stage[t] \in {"returned", "raised"} /\ outcome[t].error # "index_unavailable"
                  => Len(searches[t]) = 1
            /\ \A i \in DOMAIN searches[t] :
                  /\ DOMAIN FilterOf(searches[t][i]) \subseteq {"source_type", "service"}
                  /\ SourceTypeOf(searches[t][i]) =
                        (IF intent[t] = incident_analysis THEN "incident" ELSE "log")
                  /\ ServiceConstraintOnly(t, FilterOf(searches[t][i]))
                  /\ searches[t][i].status = "ok" =>
                        stage[t] = "returned" /\ routed[t] = searches[t][i].docs

C6_Witness ==
    \E t \in Threads :
        /\ intent[t] = log_analysis
        /\ service[t] = "trading-db"
        /\ stage[t] = "returned"
        /\ Len(searches[t]) = 1
        /\ routed[t] = <<>>

\* C7: a call with any intent other than runbook_lookup, incident_analysis and
\* log_analysis issues one search whose filter has no source_type key and
\* carries the service constraint alone.
C7_BroadSearchHasNoSourceType ==
    \A t \in Threads :
        Routing(t) /\ intent[t] \notin {runbook_lookup, incident_analysis, log_analysis} =>
            /\ Len(searches[t]) <= 1
            /\ stage[t] \in {"broad", "returned", "raised"}
            /\ stage[t] \in {"returned", "raised"} /\ outcome[t].error # "index_unavailable"
                  => Len(searches[t]) = 1
            /\ \A i \in DOMAIN searches[t] :
                  /\ DOMAIN FilterOf(searches[t][i]) \subseteq {"service"}
                  /\ ServiceConstraintOnly(t, FilterOf(searches[t][i]))

C7_Witness ==
    \E t \in Threads :
        /\ intent[t] = alert_investigation
        /\ stage[t] = "returned"
        /\ Len(searches[t]) = 1
        /\ \E i \in DOMAIN routed[t] : Corpus[routed[t][i]].source_type = "ticket"

\* C8: when route_query has returned no document to generate_answer, the call
\* is over with the sentinel text and an empty reference list, and the
\* generation chain was not invoked.
C8_EmptyRetrievalGivesSentinel ==
    \A t \in Threads :
        entry[t] = "generate_answer" /\ stage[t] = "returned" /\ routed[t] = <<>> =>
            /\ pc[t] = "done"
            /\ outcome[t].status = "ok"
            /\ outcome[t].answer = SENTINEL
            /\ outcome[t].refs = <<>>
            /\ genCalls[t] = 0

C8_Witness ==
    \E t \in Threads :
        /\ entry[t] = "generate_answer"
        /\ intent[t] = alert_investigation
        /\ stage[t] = "returned"
        /\ routed[t] = <<>>
        /\ outcome[t].answer = SENTINEL

\* C9: while the index has not been built, no search has run and no
\* route_query or generate_answer call has returned a result (in particular
\* not the sentinel); a retrieval call that finds the index missing ends the
\* call with an error.
C9_MissingIndexIsAnError ==
    /\ [](~indexBuilt =>
            \A t \in Threads :
                /\ searches[t] = <<>>
                /\ pc[t] \notin {"invoke", "generate"}
                /\ Routing(t) /\ pc[t] = "done" => outcome[t].status = "error")
    /\ [][\A t \in Threads :
            pc[t] = "load" /\ pc'[t] # "load" /\ ~indexBuilt =>
                /\ pc'[t] = "done"
                /\ outcome'[t].status = "error"
                /\ outcome'[t].error = "index_unavailable"
                /\ searches'[t] = <<>>]_vars

C9_Witness ==
    \E t \in Threads :
        /\ ~indexBuilt
        /\ entry[t] = "generate_answer"
        /\ pc[t] = "done"
        /\ outcome[t].error = "index_unavailable"

\* C10: load_vector_index returns an index at most once in the process, also
\* when several threads call get_vectorstore before a load has completed.
C10_AtMostOneLoad == loadsOk <= 1

\* ------------------------------------------------------------------------
\* Reference extraction
\* ------------------------------------------------------------------------
Extracted == fn = "_extract_reference_ids"

Rearranged(docs, p) == [i \in 1..Len(docs) |-> docs[p[i]]]

HasSource(d) ==
    /\ d.metadata # NoMetadata
    /\ "source" \in DOMAIN d.metadata[1]

SourceOf(d) == d.metadata[1]["source"]

\* the metadata is missing or empty, or the source is missing, empty,
\* or none/null in any letter case
SourceAbsent(d) ==
    \/ ~HasSource(d)
    \/ SourceOf(d) \in {NoneText, <<>>}
    \/ str_lower(SourceOf(d)) \in NullLike

Without(docs, i) == [j \in 1..(Len(docs) - 1) |-> IF j < i THEN docs[j] ELSE docs[j + 1]]

\* C11: _extract_reference_ids returns the same list for every permutation
\* of a batch and for the batch with documents repeated; the list is in
\* strictly ascending order (so without duplicates), and applying the
\* function again to the same batch returns the identical list.
C11_OrderAndDuplicateInsensitive ==
    Extracted =>
        /\ \A p \in Permutations(1..Len(args)) :
               extract_reference_ids(Rearranged(args, p)) = result
        /\ extract_reference_ids(args \o args) = result
        /\ \A i \in 1..Len(args) : extract_reference_ids(Append(args, args[i])) = result
        /\ \A i \in 1..(Len(result) - 1) : LexLess(result[i], result[i + 1])
        /\ \A i, j \in 1..Len(result) : i # j => result[i] # result[j]
        /\ extract_reference_ids(args) = result

\* a batch of two files given in descending order
C11_Witness ==
    /\ Extracted
    /\ Len(args) = 2
    /\ Len(result) = 2
    /\ HasSource(args[1]) /\ HasSource(args[2])
    /\ basename(SourceOf(args[1])) = result[2]
    /\ basename(SourceOf(args[2])) = result[1]

\* C12: _extract_reference_ids returns a list for every batch, whatever the
\* metadata; a document whose metadata is missing or empty, or whose source
\* is missing, empty or none/null in any letter case, contributes nothing
\* (the result is that of the batch without it); no element of the result
\* is empty or equal to none/null case-insensitively, also when only the
\* last path component of a source is such a value.
C12_NullLikeSourcesExcluded ==
    Extracted =>
        /\ result \in Seq(Seq(CodePointSet))
        /\ \A i \in 1..Len(args) :
               SourceAbsent(args[i]) => extract_reference_ids(Without(args, i)) = result
        /\ \A i \in 1..Len(result) :
               /\ result[i] # <<>>
               /\ str_lower(result[i]) \notin NullLike

\* a batch of a usable source and a source whose last component is null-like
C12_Witness ==
    /\ Extracted
    /\ Len(result) = 1
    /\ \E i \in 1..Len(args) :
         /\ HasSource(args[i])
         /\ ~SourceAbsent(args[i])
         /\ str_lower(basename(SourceOf(args[i]))) \in NullLike

\* the source passes both guards and names a file after trimming
Usable(d) ==
    /\ ~SourceAbsent(d)
    /\ basename(str_strip(SourceOf(d))) # <<>>
    /\ str_lower(basename(str_strip(SourceOf(d)))) \notin NullLike

Elements(seq) == {seq[i] : i \in 1..Len(seq)}

\* C13 as stated: every element of the result is the basename of the source
\* of an input document, and every document with a valid source contributes
\* the basename of its source.
C13_BasenameOfSource ==
    Extracted =>
        /\ \A r \in Elements(result) :
               \E i \in 1..Len(args) :
                   HasSource(args[i]) /\ r = basename(SourceOf(args[i]))
        /\ \A i \in 1..Len(args) :
               Usable(args[i]) => basename(SourceOf(args[i])) \in Elements(result)

\* C13 (amended): every element of the result is the basename of the
\* whitespace-trimmed source of an input document, and every document whose
\* source passes the guards and whose trimmed basename is neither empty nor
\* none/null contributes that basename; runbooks/disk_spike.txt yields
\* disk_spike.txt, and two documents whose sources differ only in the
\* directory yield a single ID.
C13_BasenameOfTrimmedSource ==
    Extracted =>
        /\ \A r \in Elements(result) :
               \E i \in 1..Len(args) :
                   Usable(args[i]) /\ r = basename(str_strip(SourceOf(args[i])))
        /\ \A i \in 1..Len(args) :
               Usable(args[i]) => basename(str_strip(SourceOf(args[i]))) \in Elements(result)
        /\ (\E i \in 1..Len(args) : args[i] = Doc(Corpus[1].source))
               => <<"d", "i", "s", "k", "_", "s", "p", "i", "k", "e", ".", "t", "x", "t">> \in Elements(result)
        /\ \A i, j \in 1..Len(args) :
               /\ Usable(args[i]) /\ Usable(args[j])
               /\ basename(str_strip(SourceOf(args[i]))) = basename(str_strip(SourceOf(args[j])))
               /\ \A k \in 1..Len(args) : k \in {i, j}
               => Len(result) = 1

\* two documents whose sources differ only in the directory
C13_Witness ==
    /\ Extracted
    /\ Len(args) = 2
    /\ args[1] = Doc(Corpus[1].source)
    /\ args[2] = Doc(Corpus[2].source)
    /\ Len(result) = 1

\* ------------------------------------------------------------------------
\* Metadata filters
\* ------------------------------------------------------------------------
FilterBuilt == fn = "build_metadata_filter"

\* C15: build_metadata_filter emits a key only for a constraint that is
\* present: source_type iff the argument is non-empty, service iff the
\* argument is non-empty and not the literal unknown, priority_order iff
\* max_priority is given; no emitted value is null or empty, and with no
\* constraint present the result is the empty filter.
C15_KeysOnlyForPresentConstraints ==
    FilterBuilt =>
        /\ DOMAIN result \subseteq {"source_type", "service", "priority_order"}
        /\ "source_type" \in DOMAIN result <=> args.source_type \notin {None, ""}
        /\ "service" \in DOMAIN result <=> args.service \notin {None, "", "unknown"}
        /\ "priority_order" \in DOMAIN result <=> args.max_priority # NoPriority
        /\ "source_type" \in DOMAIN result =>
               result["source_type"] = args.source_type /\ result["source_type"] \notin {None, ""}
        /\ "service" \in DOMAIN result =>
               result["service"] = args.service /\ result["service"] \notin {None, ""}
        /\ "priority_order" \in DOMAIN result => result["priority_order"].lte \in Int
        /\ ( /\ args.source_type \in {None, ""}
             /\ args.service \in {None, "", "unknown"}
             /\ args.max_priority = NoPriority ) => result = EmptyFilter

\* the service unknown next to a source type: only the source type is emitted
C15_Witness ==
    /\ FilterBuilt
    /\ args.service = "unknown"
    /\ args.source_type = "runbook"
    /\ args.max_priority = NoPriority
    /\ DOMAIN result = {"source_type"}

\* C16: for every integer max_priority, 0 included, the filter holds
\* priority_order as a less-than-or-equal constraint with exactly that
\* bound (a record with the single field lte, not the bare number); the
\* source_type and service keys are those of the call without max_priority;
\* the call leaves the program state as it was.
C16_PriorityIsUpperBound ==
    FilterBuilt =>
        /\ args.max_priority # NoPriority =>
               /\ "priority_order" \in DOMAIN result
               /\ DOMAIN result["priority_order"] = {"lte"}
               /\ result["priority_order"].lte = args.max_priority[1]
        /\ \A mp \in PriorityArgs :
               LET other == build_metadata_filter(args.source_type, args.service, mp)
               IN  \A key \in {"source_type", "service"} :
                       /\ key \in DOMAIN other <=> key \in DOMAIN result
                       /\ key \in DOMAIN result => other[key] = result[key]
        /\ <<pc, entry, searches, outcome, shared>> =
               <<[t \in Threads |-> "idle"], [t \in Threads |-> "none"],
                 [t \in Threads |-> <<>>], [t \in Threads |-> NoOutcome],
                 <<FALSE, NoHandle, 0, 0>>>>

\* max_priority 0 next to a source type
C16_Witness ==
    /\ FilterBuilt
    /\ args.max_priority = <<0>>
    /\ args.source_type = "alert"
    /\ result["priority_order"].lte = 0
    /\ result["source_type"] = "alert"

\* ------------------------------------------------------------------------
\* Retriever adapter
\* ------------------------------------------------------------------------
RetrieverBuilt == fn \in {"get_base_retriever", "get_filtered_retriever"}

\* C17: get_base_retriever and get_filtered_retriever request k = 5 when
\* top_k is not given, and exactly top_k for every top_k the caller gives.
C17_SuppliedTopKIsUsed ==
    RetrieverBuilt =>
        result.search_kwargs["k"] = IF args.top_k = NoTopK THEN 5 ELSE args.top_k[1]

\* C18: every search the core issues either carries no metadata filter and
\* then applies the minimum score threshold, or carries a non-empty
\* metadata filter and then applies no threshold.
C18_ThresholdIffUnfiltered ==
    \A t \in Threads : \A i \in 1..Len(searches[t]) :
        LET r == searches[t][i].retriever
        IN  IF "filter" \in DOMAIN r.search_kwargs
            THEN /\ DOMAIN r.search_kwargs["filter"] # {}
                 /\ r.search_type = "similarity"
                 /\ "score_threshold" \notin DOMAIN r.search_kwargs
            ELSE /\ r.search_type = "similarity_score_threshold"
                 /\ "score_threshold" \in DOMAIN r.search_kwargs

\* ------------------------------------------------------------------------
\* Answer assembly
\* ------------------------------------------------------------------------
\* C20: a generate_answer call has called route_query not at all before its
\* classification and exactly once after it, whatever the intent; for
\* general_question the router takes the broad branch (one search without a
\* source_type constraint); the sentinel is the answer only when the router
\* returned no document, and a non-empty routed sequence is answered by the
\* generation chain also for general_question.
C20_AlwaysRoutesOnce ==
    \A t \in Threads :
        entry[t] = "generate_answer" =>
            /\ pc[t] = "classify" => routeCalls[t] = 0 /\ stage[t] = "none"
            /\ pc[t] # "classify" /\ outcome[t].error # "classification_failed" =>
                   routeCalls[t] = 1 /\ stage[t] # "none"
            /\ intent[t] = general_question =>
                   /\ stage[t] \in {"broad", "returned", "raised"}
                   /\ \A i \in DOMAIN searches[t] :
                          "source_type" \notin DOMAIN FilterOf(searches[t][i])
            /\ outcome[t].answer = SENTINEL => stage[t] = "returned" /\ routed[t] = <<>>
            /\ pc[t] = "done" /\ outcome[t].status = "ok" /\ routed[t] # <<>> =>
                   outcome[t].answer \in Answers /\ genCalls[t] = 1

\* a general_question call that was routed and answered from the documents
C20_Witness ==
    \E t \in Threads :
        /\ entry[t] = "generate_answer"
        /\ intent[t] = general_question
        /\ pc[t] = "done"
        /\ routeCalls[t] = 1
        /\ routed[t] # <<>>
        /\ outcome[t].answer \in Answers

\* ------------------------------------------------------------------------
\* Front ends
\* ------------------------------------------------------------------------
\* the file names of the routed documents with a usable source
CorpusFileName ==
    [d \in CorpusIds |->
        IF Usable(DocumentsOf(<<d>>)[1]) THEN {basename(str_strip(Corpus[d].source))} ELSE {}]

RoutedFileNames(found) == UNION { CorpusFileName[found[i]] : i \in 1..Len(found) }

\* C14: the reference list generate_answer returns, and the reference_docs
\* the CLI and /ask show, are the sorted file names of the documents the
\* router returned, whatever text the generation chain produced and whatever
\* reference_docs the structured-extraction chain filled in: the front end
\* replaces the latter by the list generate_answer returned.
C14_ReferencesFromRoutedDocsOnly ==
    /\ \A t \in Threads :
           entry[t] = "generate_answer" /\ pc[t] = "done" /\ outcome[t].status = "ok" =>
               LET names == RoutedFileNames(routed[t])
               IN  /\ Elements(outcome[t].refs) = names
                   /\ Len(outcome[t].refs) = Cardinality(names)
    /\ fpc = "respond" /\ response.kind = "answer" =>
           /\ response.reference_docs = outcome[Main].refs
           /\ entry[Main] = "generate_answer" /\ pc[Main] = "done" /\ outcome[Main].status = "ok"

\* the structured-extraction chain guessed a file that was not retrieved
C14_Witness ==
    /\ fpc = "respond"
    /\ response.kind = "answer"
    /\ response.guess # <<>>
    /\ response.reference_docs # <<>>
    /\ response.guess # response.reference_docs
    /\ Len(routed[Main]) = 2

\* C19: once the front end's classify_intent call has returned
\* general_question, the request is at its end with the fixed out-of-scope
\* message; generate_answer and route_query were not called, no search was
\* issued, the generation and structured-extraction chains were not invoked,
\* and no step of the request changes chat_history.
C19_GeneralQuestionShortCircuits ==
    /\ [](feIntent = general_question =>
            /\ fpc = "respond"
            /\ response.kind = "message"
            /\ response.answer = OUT_OF_SCOPE
            /\ entry[Main] = "none"
            /\ pc[Main] = "idle"
            /\ routeCalls[Main] = 0
            /\ searches[Main] = <<>>
            /\ genCalls[Main] = 0
            /\ structCalls = 0)
    /\ [][feIntent = general_question \/ feIntent' = general_question
             => chat_history' = chat_history]_vars

\* the short circuit in a conversation that already has a turn
C19_Witness ==
    /\ feIntent = general_question
    /\ fpc = "respond"
    /\ response.answer = OUT_OF_SCOPE
    /\ chat_history # <<>>

\* ------------------------------------------------------------------------
\* Generation
\* ------------------------------------------------------------------------
\* the block the context holds for a document given by its metadata and text
ExpectedBlock(md, text) ==
    [source |-> IF "source_type" \in DOMAIN md THEN md["source_type"] ELSE "unknown",
     service |-> IF "service" \in DOMAIN md THEN md["service"] ELSE "unknown",
     content |-> text]

\* C21: a generate_answer call whose router returned a non-empty sequence
\* has not invoked the generation chain before the context is built and has
\* invoked it exactly once when it is over, with one block per document for
\* the first 6 routed documents at most, in routed order, each giving source
\* type, service and content; the call returns the text the chain produced.
\* _build_context itself keeps the first 6 documents of any batch, in order,
\* and writes unknown for a missing source_type or service.
C21_OneGenerationFromFirstSix ==
    /\ \A t \in Threads :
           entry[t] = "generate_answer" /\ stage[t] = "returned" /\ routed[t] # <<>> =>
               /\ pc[t] \in {"generate", "done"}
               /\ pc[t] = "generate" => genCalls[t] = 0
               /\ pc[t] = "done" =>
                      /\ genCalls[t] = 1
                      /\ Len(genInput[t].context) = Min2(Len(routed[t]), 6)
                      /\ \A i \in 1..Len(genInput[t].context) :
                             genInput[t].context[i] =
                                 ExpectedBlock(Corpus[routed[t][i]], PageContent(routed[t][i]))
                      /\ outcome[t].status = "ok" => outcome[t].answer \in Answers
    /\ fn = "_build_context" /\ args # <<>> =>
           /\ Len(result) = Min2(Len(args), 6)
           /\ \A i \in 1..Len(result) :
                  result[i] = ExpectedBlock(args[i].metadata[1], args[i].page_content)

\* two routed documents answered by the generation chain
C21_Witness ==
    \E t \in Threads :
        /\ entry[t] = "generate_answer"
        /\ pc[t] = "done"
        /\ Len(routed[t]) = 2
        /\ routed[t][1] > routed[t][2]
        /\ genCalls[t] = 1
        /\ Len(genInput[t].context) = 2
        /\ outcome[t].answer \in Answers

\* ------------------------------------------------------------------------
\* Conversation history
\* ------------------------------------------------------------------------
\* the step in which a request ends with an answer
AnswerStep == fpc = "await" /\ fpc' = "respond" /\ response'.kind = "answer"

\* C22: the only step that changes chat_history is the one that ends a
\* request with an answer: the front end's classification returned an intent
\* other than general_question, generate_answer returned and the structured
\* extraction returned; that step appends the one turn (query, answer text)
\* behind the existing turns. Every other step (an empty query, the
\* short circuit, any exception, every step of classify_intent, route_query
\* and generate_answer) leaves chat_history as it is.
C22_AppendAfterSuccess ==
    [][IF AnswerStep
       THEN /\ feIntent \in allowed \ {general_question}
            /\ outcome[Main].status = "ok"
            /\ structCalls' = 1
            /\ chat_history' = Append(chat_history,
                   [user |-> query, assistant |-> outcome[Main].answer])
       ELSE chat_history' = chat_history]_vars

\* a second turn appended behind the first
C22_Witness ==
    /\ fpc = "respond"
    /\ response.kind = "answer"
    /\ Len(chat_history) = 2
    /\ chat_history[2] = [user |-> query, assistant |-> response.answer]

\* ------------------------------------------------------------------------
\* Failures in the front ends
\* ------------------------------------------------------------------------
\* a question can be taken in
CanAsk == ENABLED ((CliRead \/ HttpReceive) /\ fpc' = "classify")

\* C23: an exception of the classification, of the retrieval, of the
\* generation or of the structured extraction ends the request with an error
\* response (status 500 from /ask) and never ends the process: the step
\* after any response returns to reading with the process state kept, a
\* reading front end can take the next question, and the CLI loop is left
\* only through exit/quit or an interrupt.
C23_FailureDoesNotStopService ==
    /\ [](/\ fpc \in {"await", "respond"} /\ outcome[Main].status = "error" /\ fpc = "respond"
               => response.kind = "error"
          /\ fpc = "respond" /\ feIntent = <<>> /\ Len(classifyCalls[Main]) = 1
               => response.kind = "error"
          /\ fpc = "respond" /\ structCalls = 1 /\ response.kind # "answer"
               => response.kind = "error"
          /\ response.kind = "error" =>
               /\ fpc = "respond"
               /\ program = "http" /\ query # <<>> => response.status = 500
          /\ fpc = "exited" => program = "cli" /\ response.kind \in {"exit", "interrupted"}
          /\ fpc = "read" /\ Len(chat_history) < MaxTurns => CanAsk)
    /\ [][fpc = "respond" =>
             /\ fpc' \in {"respond", "read"}
             /\ <<program, chat_history, cache>>' = <<program, chat_history, cache>>]_vars

\* the generation chain failed in a conversation that already has a turn
C23_Witness ==
    /\ fpc = "respond"
    /\ response.kind = "error"
    /\ outcome[Main].error = "generation_failed"
    /\ chat_history # <<>>

\* ------------------------------------------------------------------------
\* Failures in the core
\* ------------------------------------------------------------------------
\* C24: a classify_intent or generate_answer call invokes the classification
\* chain once, and its exception ends the call as that error before any
\* routing; a failed search is the last search of its call (none is repeated
\* and no fallback follows, also inside the runbook cascade), the call ends
\* as that error without documents, and generate_answer then has not invoked
\* the generation chain.
C24_NoRetryNoSwallow ==
    \A t \in Threads :
        /\ entry[t] \in {"classify_intent", "generate_answer"} /\ pc[t] # "classify" =>
               /\ Len(classifyCalls[t]) = 1
               /\ rawText[t] = <<>> =>
                      /\ pc[t] = "done"
                      /\ outcome[t].status = "error"
                      /\ outcome[t].error = "classification_failed"
                      /\ routeCalls[t] = 0
                      /\ searches[t] = <<>>
                      /\ genCalls[t] = 0
        /\ \A i, j \in DOMAIN searches[t] :
               i # j => searches[t][i].retriever # searches[t][j].retriever
        /\ \A i \in DOMAIN searches[t] :
               searches[t][i].status = "error" =>
                   /\ i = Len(searches[t])
                   /\ pc[t] = "done"
                   /\ outcome[t].status = "error"
                   /\ outcome[t].error = "search_failed"
                   /\ outcome[t].docs = <<>>
                   /\ routed[t] = <<>>
                   /\ genCalls[t] = 0

\* the alert search of the runbook cascade failed
C24_Witness ==
    \E t \in Threads :
        /\ entry[t] = "generate_answer"
        /\ intent[t] = runbook_lookup
        /\ Len(searches[t]) = 2
        /\ FoundNothing(searches[t][1])
        /\ searches[t][2].status = "error"
        /\ SourceTypeOf(searches[t][2]) = "alert"
        /\ pc[t] = "done"

\* ------------------------------------------------------------------------
\* Conversation history rendering
\* ------------------------------------------------------------------------
\* C25: format_history of an empty history is the line 'No prior
\* conversation.'; of n >= 1 turns it is the min(n, 4) most recent turns in
\* their order, each as a User line followed by an Assistant line, and
\* nothing else.
C25_LastFourTurns ==
    fn = "format_history" =>
        LET n == Len(args)
            m == Min2(n, 4)
        IN  IF n = 0 THEN result = <<[text |-> "No prior conversation."]>>
            ELSE /\ Len(result) = 2 * m
                 /\ \A k \in 1..m :
                        /\ result[2 * k - 1] = [user |-> args[n - m + k].user]
                        /\ result[2 * k] = [assistant |-> args[n - m + k].assistant]

\* five turns, the oldest unlike the one that takes its place
C25_Witness ==
    /\ fn = "format_history"
    /\ Len(args) = 5
    /\ args[1] # args[2]
    /\ Len(result) = 8

\* ------------------------------------------------------------------------
\* Two classifications per request
\* ------------------------------------------------------------------------
FirstSourceType(i) ==
    IF i = runbook_lookup THEN "runbook"
    ELSE IF i = incident_analysis THEN "incident"
    ELSE IF i = log_analysis THEN "log"
    ELSE None

\* C26: in a request of the CLI or HTTP front end that is not short-circuited
\* the classification chain is invoked once by the front end and, once
\* generate_answer has classified, a second time, both times with the query
\* of the request; the intent that reaches route_query, and with it the
\* filter of the first search, is the normalised output of the second
\* invocation, whatever the front end's intent was.
C26_ClassifiedTwice ==
    fpc \in {"await", "respond"} /\ entry[Main] = "generate_answer" =>
        /\ ~front_short_circuits(feIntent)
        /\ IF pc[Main] = "classify"
           THEN classifyCalls[Main] = <<query>>
           ELSE classifyCalls[Main] = <<query, query>>
        /\ routeCalls[Main] = 1 =>
               /\ intent[Main] = classify_intent(rawText[Main])
               /\ \A i \in DOMAIN searches[Main] :
                      i = 1 => SourceTypeOf(searches[Main][i]) = FirstSourceType(intent[Main])

\* the front end saw alert_investigation, the router a log_analysis
C26_Witness ==
    /\ fpc = "respond"
    /\ response.kind = "answer"
    /\ feIntent = alert_investigation
    /\ intent[Main] = log_analysis
    /\ Len(searches[Main]) = 1
    /\ SourceTypeOf(searches[Main][1]) = "log"

\* ------------------------------------------------------------------------
\* Routed documents and the generation context
\* ------------------------------------------------------------------------
RoutedLimit(i) == IF i = runbook_lookup THEN 3 ELSE 5

\* C27: every search of a runbook_lookup call asks the index for 3 documents
\* and every search of a call with another intent for 5; a search returns no
\* more documents than it asked for, so route_query returns at most 3
\* documents for runbook_lookup and at most 5 otherwise; the generation
\* context then has a block for every routed document, and every reference
\* ID the call returns is the file name of a document with a block in it.
C27_RoutedFitsContext ==
    \A t \in Threads :
        Routing(t) =>
            /\ \A i \in DOMAIN searches[t] :
                   /\ searches[t][i].retriever.search_kwargs["k"] = RoutedLimit(intent[t])
                   /\ Len(searches[t][i].docs) <= RoutedLimit(intent[t])
            /\ Len(routed[t]) <= RoutedLimit(intent[t])
            /\ Len(outcome[t].docs) <= RoutedLimit(intent[t])
            /\ genCalls[t] = 1 =>
                   /\ Len(genInput[t].context) = Len(routed[t])
                   /\ \A j \in DOMAIN routed[t] :
                          genInput[t].context[j].content = PageContent(routed[t][j])
                   /\ \A r \in DOMAIN outcome[t].refs :
                          \E j \in DOMAIN genInput[t].context :
                              outcome[t].refs[r] \in ReferenceOf(DocumentsOf(routed[t])[j])

\* the broad search returned five documents, and the answer came with
\* reference IDs
C27_Witness ==
    \E t \in Threads :
        /\ entry[t] = "generate_answer"
        /\ pc[t] = "done"
        /\ outcome[t].status = "ok"
        /\ outcome[t].refs # <<>>
        /\ intent[t] = alert_investigation
        /\ Len(routed[t]) = 5

\* ------------------------------------------------------------------------
\* The cached index, one caller at a time
\* ------------------------------------------------------------------------
\* C28: with one caller at a time the cache holds a handle exactly when a
\* load has succeeded, at most one load succeeds in the process, and every
\* handle in use is the cached one; a retrieval call loads the index exactly
\* when the cache is empty; a load succeeds, and is cached, when the index
\* has been built, and otherwise fails and leaves the cache empty, so that
\* the next retrieval call loads again.
C28_CachedOnlyOnSuccess ==
    /\ [](/\ loadsOk <= 1
          /\ cache # NoHandle <=> loadsOk = 1
          /\ \A t \in Threads : handle[t] # NoHandle => handle[t] = cache)
    /\ [][/\ \A t \in Threads :
                pc[t] = "get_vectorstore" /\ pc'[t] # pc[t] =>
                    IF cache = NoHandle
                    THEN pc'[t] = "load"
                    ELSE /\ pc'[t] = "invoke"
                         /\ handle'[t] = cache
                         /\ <<cache, loadCount, loadsOk>>' = <<cache, loadCount, loadsOk>>
          /\ loadCount' # loadCount =>
                /\ cache = NoHandle
                /\ IF indexBuilt
                   THEN loadsOk' = 1 /\ cache' # NoHandle
                   ELSE loadsOk' = 0 /\ cache' = NoHandle]_vars

\* one load failed, the next one succeeded, and the second search of a
\* runbook cascade is about to run on the cached handle
C28_Witness ==
    /\ loadCount = 2
    /\ loadsOk = 1
    /\ pc[Main] = "invoke"
    /\ Len(searches[Main]) = 1
    /\ handle[Main] = cache
    /\ cache # NoHandle

====
